---- MODULE Spec2Model ----
(***************************************************************************)
(* Model of src/rust/src/main.rs: the process reads seven environment      *)
(* variables (after a best-effort load of a local environment file),       *)
(* prints two of them, formats the other five into a PostgreSQL URL,       *)
(* opens one connection, fetches one row of "prices" and prints it.        *)
(* Every `?` propagates its error to the top of main, which reports it     *)
(* and terminates with a failure exit status.                              *)
(***************************************************************************)
EXTENDS Integers, Sequences, FiniteSets, TLC

-----------------------------------------------------------------------------
(* Bounds of the model *)

\* largest number of rows the table "prices" holds when it is queried
MaxRows == 2

\* largest number of lines of the local environment file
MaxFileLines == 2

-----------------------------------------------------------------------------
(* Names and values *)

ApiVars == {"BINANCE_API_KEY", "BINANCE_API_SECRET"}

DbVars == {"DB_USER", "DB_PASSWORD", "DB_HOST", "DB_PORT", "DB_NAME"}

Vars == ApiVars \cup DbVars

\* An environment entry: unset, or an OsString that is valid Unicode or not.
NotPresent == [set |-> FALSE, utf8 |-> FALSE, text |-> ""]

\* OsString::from(String): the OS string holding exactly the text s
OsStr(s) == [set |-> TRUE, utf8 |-> TRUE, text |-> s]

\* an OS string whose bytes are not valid UTF-8 (text names the bytes)
RawBytes(s) == [set |-> TRUE, utf8 |-> FALSE, text |-> s]

\* The valid-Unicode value each variable may hold in the process environment.
\* DB_PASSWORD carries URL-reserved characters.
ProcValue(v) ==
    CASE v = "BINANCE_API_KEY"    -> "key123"
      [] v = "BINANCE_API_SECRET" -> " s3cret "
      [] v = "DB_USER"            -> "alice"
      [] v = "DB_PASSWORD"        -> "p@ss:w/rd"
      [] v = "DB_HOST"            -> "db.local"
      [] v = "DB_PORT"            -> "5432"
      [] v = "DB_NAME"            -> "market"

\* A line of the environment file: an assignment KEY=value or a line the
\* parser rejects.
BadLine == [ok |-> FALSE, key |-> "", value |-> ""]

Assign(k, s) == [ok |-> TRUE, key |-> k, value |-> s]

FileLines == {BadLine, Assign("DB_HOST", "filehost"), Assign("BINANCE_API_KEY", "filekey")}

RECURSIVE SeqsUpTo(_, _)
SeqsUpTo(S, n) ==
    IF n = 0 THEN {<< >>}
    ELSE LET shorter == SeqsUpTo(S, n - 1)
         IN  shorter \cup {Append(q, x) : q \in {r \in shorter : Len(r) = n - 1}, x \in S}

\* the file is missing, or present with up to MaxFileLines lines
NoFile == [present |-> FALSE, lines |-> << >>]

FileChoices == {NoFile} \cup {[present |-> TRUE, lines |-> l] : l \in SeqsUpTo(FileLines, MaxFileLines)}

\* the process environments main may start in
EnvChoices ==
    {[v \in Vars |-> CASE c[v] = "unset"   -> NotPresent
                       [] c[v] = "unicode" -> OsStr(ProcValue(v))
                       [] c[v] = "raw"     -> RawBytes("\\xFF" \o v)] :
        c \in [Vars -> {"unset", "unicode", "raw"}]}

\* the rows the store may return for the statement, in the order it sends them
RowIds == {"btc", "eth"}

TableChoices == SeqsUpTo(RowIds, MaxRows)

-----------------------------------------------------------------------------
(* State *)

VARIABLES
    pc,          \* position of main
    envfile,     \* the local environment file
    env,         \* the process environment
    api_key,     \* main.rs:14
    api_secret,  \* main.rs:15
    cred,        \* the five arguments of format! (main.rs:21-30)
    url,         \* main.rs:20
    stdout,      \* lines printed by println!
    stderr,      \* error report of main
    connects,    \* connection attempts started
    connected,   \* "none", "ok" or "err": result of connect
    queries,     \* queries issued
    fetched,     \* "none", "row", "RowNotFound" or "Database": result of fetch_one
    rows,        \* the rows the store returned for the statement
    res,         \* the row fetch_one returned (main.rs:35)
    outcome      \* "running", "success" or "failed"

vars == <<pc, envfile, env, api_key, api_secret, cred, url, stdout, stderr,
          connects, connected, queries, fetched, rows, res, outcome>>

NoCred == [user |-> "", password |-> "", host |-> "", port |-> "", name |-> ""]

Init ==
    /\ pc = "dotenv"
    /\ envfile \in FileChoices
    /\ env \in EnvChoices
    /\ api_key = ""
    /\ api_secret = ""
    /\ cred = NoCred
    /\ url = ""
    /\ stdout = << >>
    /\ stderr = << >>
    /\ connects = 0
    /\ connected = "none"
    /\ queries = 0
    /\ fetched = "none"
    /\ rows = << >>
    /\ res = ""
    /\ outcome = "running"

-----------------------------------------------------------------------------
(* Library calls of main, by what they do *)

\* dotenv_vault::dotenv(): read the file line by line; a variable that the
\* environment already holds is kept, any other is set; the first line that
\* does not parse ends the load with an error, what was set stays set.
RECURSIVE LoadLines(_, _)
LoadLines(lines, e) ==
    IF lines = << >> THEN [ok |-> TRUE, env |-> e]
    ELSE LET l == Head(lines)
         IN  IF ~l.ok THEN [ok |-> FALSE, env |-> e]
             ELSE LoadLines(Tail(lines),
                            IF e[l.key].set THEN e
                            ELSE [e EXCEPT ![l.key] = OsStr(l.value)])

dotenv(file, e) ==
    IF ~file.present THEN [ok |-> FALSE, env |-> e]
    ELSE LoadLines(file.lines, e)

\* std::env::var(key): Ok(value) when the variable is set to valid Unicode,
\* Err(NotPresent) when it is unset, Err(NotUnicode) otherwise.
env_var(e, key) ==
    IF ~e[key].set THEN [ok |-> FALSE, val |-> "NotPresent"]
    ELSE IF ~e[key].utf8 THEN [ok |-> FALSE, val |-> "NotUnicode"]
    ELSE [ok |-> TRUE, val |-> e[key].text]

\* unwrap_or with its two outcomes exchanged
unwrap_or_swapped(r, default) == IF r.ok THEN default ELSE r.val

\* Result::unwrap_or(default)
unwrap_or(r, default) == IF r.ok THEN r.val ELSE default

\* the default written at each env::var call of main
Default(key) ==
    CASE key = "BINANCE_API_KEY"    -> "ERR:"
      [] key = "BINANCE_API_SECRET" -> "ERR:"
      [] key = "DB_USER"     -> "ERR: failed to get env with name 'DB_USER': {:?}"
      [] key = "DB_PASSWORD" -> "ERR: failed to get env with name 'DB_PASSWORD': {:?}"
      [] key = "DB_HOST"     -> "ERR: failed to get env with name 'DB_HOST': {:?}"
      [] key = "DB_PORT"     -> "ERR: failed to get env with name 'DB_PORT': {:?}"
      [] key = "DB_NAME"     -> "ERR: failed to get env with name 'DB_NAME': {:?}"

\* env::var(key).unwrap_or(default.to_string())
Lookup(e, key) == unwrap_or(env_var(e, key), Default(key))

\* The format string of main.rs:20 as its pieces: literal text and named
\* placeholders.
Lit(s) == [lit |-> TRUE, s |-> s]

Arg(n) == [lit |-> FALSE, s |-> n]

\* the template with host and port exchanged
UrlTemplateSwapped ==
    <<Lit("postgresql://"), Arg("user"), Lit(":"), Arg("password"), Lit("@"),
      Arg("port"), Lit(":"), Arg("host"), Lit("/"), Arg("name")>>

UrlTemplate ==
    <<Lit("postgresql://"), Arg("user"), Lit(":"), Arg("password"), Lit("@"),
      Arg("host"), Lit(":"), Arg("port"), Lit("/"), Arg("name")>>

\* format!: each placeholder is replaced by the Display of its argument,
\* which for a String is the string itself.
RECURSIVE format(_, _)
format(template, args) ==
    IF template = << >> THEN ""
    ELSE LET p == Head(template)
         IN  (IF p.lit THEN p.s ELSE args[p.s]) \o format(Tail(template), args)

\* fetch_one returning the last row it received
fetch_last(stream) ==
    IF stream = << >> THEN [ok |-> FALSE, val |-> "RowNotFound"]
    ELSE [ok |-> TRUE, val |-> stream[Len(stream)]]

\* fetch_one: the first row of the result, or RowNotFound when there is none
fetch_one(stream) ==
    IF stream = << >> THEN [ok |-> FALSE, val |-> "RowNotFound"]
    ELSE [ok |-> TRUE, val |-> Head(stream)]

\* Debug representation of a row (main.rs:39)
RowDebug(row) == "PgRow(" \o row \o ")"

\* what the runtime writes when main returns Err(e)
ErrorReport(e) == "Error: " \o e

-----------------------------------------------------------------------------
(* Steps of main *)

\* main.rs:11  let _ = dotenv_vault::dotenv();
LoadDotenv ==
    /\ pc = "dotenv"
    /\ env' = dotenv(envfile, env).env
    /\ pc' = "api_key"
    /\ UNCHANGED <<envfile, api_key, api_secret, cred, url, stdout, stderr,
                   connects, connected, queries, fetched, rows, res, outcome>>

\* the lookup of BINANCE_API_KEY with `?` in place of unwrap_or
ReadApiKeyStrict ==
    /\ pc = "api_key"
    /\ LET r == env_var(env, "BINANCE_API_KEY")
       IN  IF r.ok
           THEN /\ api_key' = r.val
                /\ pc' = "api_secret"
                /\ UNCHANGED <<stderr, outcome>>
           ELSE /\ api_key' = api_key
                /\ stderr' = Append(stderr, ErrorReport(r.val))
                /\ outcome' = "failed"
                /\ pc' = "done"
    /\ UNCHANGED <<envfile, env, api_secret, cred, url, stdout,
                   connects, connected, queries, fetched, rows, res>>

\* main.rs:14
ReadApiKey ==
    /\ pc = "api_key"
    /\ api_key' = Lookup(env, "BINANCE_API_KEY")
    /\ pc' = "api_secret"
    /\ UNCHANGED <<envfile, env, api_secret, cred, url, stdout, stderr,
                   connects, connected, queries, fetched, rows, res, outcome>>

\* main.rs:15
ReadApiSecret ==
    /\ pc = "api_secret"
    /\ api_secret' = Lookup(env, "BINANCE_API_SECRET")
    /\ pc' = "print_key"
    /\ UNCHANGED <<envfile, env, api_key, cred, url, stdout, stderr,
                   connects, connected, queries, fetched, rows, res, outcome>>

\* the first println! printing the secret
PrintKeyAsSecret ==
    /\ pc = "print_key"
    /\ stdout' = Append(stdout, "Key: " \o api_secret)
    /\ pc' = "print_secret"
    /\ UNCHANGED <<envfile, env, api_key, api_secret, cred, url, stderr,
                   connects, connected, queries, fetched, rows, res, outcome>>

\* main.rs:16
PrintKey ==
    /\ pc = "print_key"
    /\ stdout' = Append(stdout, "Key: " \o api_key)
    /\ pc' = "print_secret"
    /\ UNCHANGED <<envfile, env, api_key, api_secret, cred, url, stderr,
                   connects, connected, queries, fetched, rows, res, outcome>>

\* main.rs:17
PrintSecret ==
    /\ pc = "print_secret"
    /\ stdout' = Append(stdout, "Secret: " \o api_secret)
    /\ pc' = "cred"
    /\ UNCHANGED <<envfile, env, api_key, api_secret, cred, url, stderr,
                   connects, connected, queries, fetched, rows, res, outcome>>

\* main.rs:21-30  the five arguments of format!
LoadCredentials ==
    /\ pc = "cred"
    /\ cred' = [user     |-> Lookup(env, "DB_USER"),
                password |-> Lookup(env, "DB_PASSWORD"),
                host     |-> Lookup(env, "DB_HOST"),
                port     |-> Lookup(env, "DB_PORT"),
                name     |-> Lookup(env, "DB_NAME")]
    /\ pc' = "format"
    /\ UNCHANGED <<envfile, env, api_key, api_secret, url, stdout, stderr,
                   connects, connected, queries, fetched, rows, res, outcome>>

\* main.rs:20  let url = format!(...)
FormatUrl ==
    /\ pc = "format"
    /\ url' = format(UrlTemplate, cred)
    /\ pc' = "print_url"
    /\ UNCHANGED <<envfile, env, api_key, api_secret, cred, stdout, stderr,
                   connects, connected, queries, fetched, rows, res, outcome>>

\* main.rs:32
PrintConnecting ==
    /\ pc = "print_url"
    /\ stdout' = Append(stdout, "Connecting to " \o url)
    /\ pc' = "connect"
    /\ UNCHANGED <<envfile, env, api_key, api_secret, cred, url, stderr,
                   connects, connected, queries, fetched, rows, res, outcome>>

\* main.rs:34  PgConnection::connect(&url) is called and awaited
ConnectBegin ==
    /\ pc = "connect"
    /\ connects' = connects + 1
    /\ pc' = "connecting"
    /\ UNCHANGED <<envfile, env, api_key, api_secret, cred, url, stdout, stderr,
                   connected, queries, fetched, rows, res, outcome>>

\* main.rs:34  .await yields a connection
ConnectOk ==
    /\ pc = "connecting"
    /\ connected' = "ok"
    /\ pc' = "query"
    /\ UNCHANGED <<envfile, env, api_key, api_secret, cred, url, stdout, stderr,
                   connects, queries, fetched, rows, res, outcome>>

\* a failed connect whose error is dropped: main goes on to the query
ConnectErrIgnored ==
    /\ pc = "connecting"
    /\ connected' = "err"
    /\ pc' = "query"
    /\ UNCHANGED <<envfile, env, api_key, api_secret, cred, url, stdout, stderr,
                   connects, queries, fetched, rows, res, outcome>>

\* a failed connect that is tried again
ConnectErrRetry ==
    /\ pc = "connecting"
    /\ connected' = "err"
    /\ pc' = "connect"
    /\ UNCHANGED <<envfile, env, api_key, api_secret, cred, url, stdout, stderr,
                   connects, queries, fetched, rows, res, outcome>>

\* main.rs:34  .await? yields an error: main returns it
ConnectErr ==
    /\ pc = "connecting"
    /\ connected' = "err"
    /\ stderr' = Append(stderr, ErrorReport("connect"))
    /\ outcome' = "failed"
    /\ pc' = "done"
    /\ UNCHANGED <<envfile, env, api_key, api_secret, cred, url, stdout,
                   connects, queries, fetched, rows, res>>

\* main.rs:35-36  the fixed statement is sent on the connection
QueryBegin ==
    /\ pc = "query"
    /\ queries' = queries + 1
    /\ pc' = "fetching"
    /\ UNCHANGED <<envfile, env, api_key, api_secret, cred, url, stdout, stderr,
                   connects, connected, fetched, rows, res, outcome>>

\* fetch_one whose error is dropped: main goes on to return Ok
QueryRowsSwallow ==
    /\ pc = "fetching"
    /\ \E t \in TableChoices :
         LET r == fetch_one(t)
         IN  /\ rows' = t
             /\ fetched' = IF r.ok THEN "row" ELSE r.val
             /\ res' = IF r.ok THEN r.val ELSE res
             /\ pc' = IF r.ok THEN "print_row" ELSE "return"
    /\ UNCHANGED <<envfile, env, api_key, api_secret, cred, url, stdout, stderr,
                   connects, connected, queries, outcome>>

\* main.rs:36-37  fetch_one(...).await? on the rows the store returns
QueryRows ==
    /\ pc = "fetching"
    /\ \E t \in TableChoices :
         LET r == fetch_one(t)
         IN  /\ rows' = t
             /\ IF r.ok
                THEN /\ fetched' = "row"
                     /\ res' = r.val
                     /\ pc' = "print_row"
                     /\ UNCHANGED <<stderr, outcome>>
                ELSE /\ fetched' = r.val
                     /\ res' = res
                     /\ stderr' = Append(stderr, ErrorReport(r.val))
                     /\ outcome' = "failed"
                     /\ pc' = "done"
    /\ UNCHANGED <<envfile, env, api_key, api_secret, cred, url, stdout,
                   connects, connected, queries>>

\* main.rs:37  the statement fails in the store (no table, lost connection)
QueryErr ==
    /\ pc = "fetching"
    /\ fetched' = "Database"
    /\ stderr' = Append(stderr, ErrorReport("Database"))
    /\ outcome' = "failed"
    /\ pc' = "done"
    /\ UNCHANGED <<envfile, env, api_key, api_secret, cred, url, stdout,
                   connects, connected, queries, rows, res>>

\* main.rs:39
PrintRow ==
    /\ pc = "print_row"
    /\ stdout' = Append(stdout, RowDebug(res))
    /\ pc' = "return"
    /\ UNCHANGED <<envfile, env, api_key, api_secret, cred, url, stderr,
                   connects, connected, queries, fetched, rows, res, outcome>>

\* main.rs:44  Ok(())
ReturnOk ==
    /\ pc = "return"
    /\ outcome' = "success"
    /\ pc' = "done"
    /\ UNCHANGED <<envfile, env, api_key, api_secret, cred, url, stdout, stderr,
                   connects, connected, queries, fetched, rows, res>>

Next ==
    \/ LoadDotenv
    \/ ReadApiKey
    \/ ReadApiSecret
    \/ PrintKey
    \/ PrintSecret
    \/ LoadCredentials
    \/ FormatUrl
    \/ PrintConnecting
    \/ ConnectBegin
    \/ ConnectOk
    \/ ConnectErr
    \/ QueryBegin
    \/ QueryRows
    \/ QueryErr
    \/ PrintRow
    \/ ReturnOk

Spec == Init /\ [][Next]_vars

\* The steps before the connection attempt are synchronous and the single
\* task runs them to completion; connect and query await the network with
\* no timeout, so nothing is assumed about their completion.
Startup ==
    \/ LoadDotenv
    \/ ReadApiKey
    \/ ReadApiSecret
    \/ PrintKey
    \/ PrintSecret
    \/ LoadCredentials
    \/ FormatUrl
    \/ PrintConnecting
    \/ ConnectBegin

LiveSpec == Init /\ [][Next]_vars /\ WF_vars(Startup)

-----------------------------------------------------------------------------
(* Positions of main and the Loader's outputs *)

PcOrder ==
    <<"dotenv", "api_key", "api_secret", "print_key", "print_secret", "cred",
      "format", "print_url", "connect", "connecting", "query", "fetching",
      "print_row", "return", "done">>

Index(label) == CHOOSE i \in 1..Len(PcOrder) : PcOrder[i] = label

\* main has executed the step at label
Past(label) == Index(pc) > Index(label)

\* the step that looks variable v up has been executed
Loaded(v) ==
    CASE v = "BINANCE_API_KEY"    -> Past("api_key")
      [] v = "BINANCE_API_SECRET" -> Past("api_secret")
      [] OTHER                    -> Past("cred")

\* the Loader's output for variable v
Output(v) ==
    CASE v = "BINANCE_API_KEY"    -> api_key
      [] v = "BINANCE_API_SECRET" -> api_secret
      [] v = "DB_USER"            -> cred.user
      [] v = "DB_PASSWORD"        -> cred.password
      [] v = "DB_HOST"            -> cred.host
      [] v = "DB_PORT"            -> cred.port
      [] v = "DB_NAME"            -> cred.name

\* the local environment file loads without error
DotenvOk == envfile.present /\ \A i \in 1..Len(envfile.lines) : envfile.lines[i].ok

-----------------------------------------------------------------------------
(* Claims *)

\* C1: for every two different variables that are both unset, the Loader's
\* outputs (their sentinels) are different strings.
C1_DistinctSentinels ==
    \A v \in Vars : \A w \in Vars \ {v} :
        (Loaded(v) /\ Loaded(w) /\ ~env[v].set /\ ~env[w].set)
            => Output(v) # Output(w)

\* C2 as stated: whenever a variable is set, the Loader's output for it
\* is exactly the variable's value.
C2_SetValueVerbatim ==
    \A v \in Vars :
        (Loaded(v) /\ env[v].set) => OsStr(Output(v)) = env[v]

\* C2 amended: whenever a variable is set to a valid Unicode value the
\* Loader's output for it is exactly that value; a variable set to a value
\* that is not valid Unicode yields the variable's default string.
C2_UnicodeValueVerbatim ==
    \A v \in Vars :
        /\ (Loaded(v) /\ env[v].set /\ env[v].utf8) => Output(v) = env[v].text
        /\ (Loaded(v) /\ env[v].set /\ ~env[v].utf8) => Output(v) = Default(v)

C2_Witness ==
    /\ pc = "format"
    /\ env["BINANCE_API_SECRET"] = OsStr(" s3cret ")
    /\ api_secret = " s3cret "
    /\ env["DB_HOST"] = OsStr("filehost")
    /\ cred.host = "filehost"
    /\ env["DB_PASSWORD"].set /\ ~env["DB_PASSWORD"].utf8

\* C3: the query is issued only after connect succeeded, and a run whose
\* connect failed has terminated as failed with no query issued.
C3_NoQueryAfterFailedConnect ==
    /\ queries > 0 => connected = "ok"
    /\ pc \in {"query", "fetching", "print_row", "return"} => connected = "ok"
    /\ connected = "err" => (queries = 0 /\ outcome = "failed" /\ pc = "done")

C3_Witness == connected = "err" /\ outcome = "failed" /\ queries = 0 /\ connects = 1

\* C4: once assembled, the URL is "postgresql://" user ":" password "@"
\* host ":" port "/" name of the five credential fields, unescaped, and
\* depends on nothing else.
C4_UrlIsTemplateOfFields ==
    Past("format") =>
        url = "postgresql://" \o cred.user \o ":" \o cred.password \o "@"
              \o cred.host \o ":" \o cred.port \o "/" \o cred.name

C4_Witness ==
    /\ Past("format")
    /\ url = "postgresql://alice:p@ss:w/rd@db.local:5432/market"
    /\ ~env["BINANCE_API_KEY"].set

\* C5: a query that returns no row or fails ends the run as failed, as a
\* failed connect does: the error is reported, no row is printed and the
\* run does not succeed.
C5_QueryFailureIsFailed ==
    /\ fetched \in {"RowNotFound", "Database"} =>
          /\ pc = "done"
          /\ outcome = "failed"
          /\ Len(stdout) = 3
          /\ Len(stderr) = 1
    /\ connected = "err" => (pc = "done" /\ outcome = "failed")

C5_Witness == fetched = "RowNotFound" /\ rows = << >> /\ outcome = "failed"

\* C6: whatever is set or unset and whether or not the environment file
\* loads, the run reaches the connection attempt, and it neither fails nor
\* reports an error before that attempt.
C6_LoaderNeverFails ==
    /\ <>(connects = 1)
    /\ [](connects = 0 => (outcome = "running" /\ stderr = << >>))

C6_Witness ==
    /\ connects = 1
    /\ ~DotenvOk
    /\ \A v \in Vars : ~env[v].set

\* C7: when one of the five database variables is unset, its credential
\* field is exactly "ERR: failed to get env with name '<VAR>'", and with
\* DB_HOST unset the URL holds that string in place of the hostname.
C7_LiteralSentinel ==
    /\ \A v \in DbVars :
          (Loaded(v) /\ ~env[v].set)
              => Output(v) = "ERR: failed to get env with name '" \o v \o "'"
    /\ (Past("format") /\ ~env["DB_HOST"].set) =>
          url = "postgresql://" \o cred.user \o ":" \o cred.password \o "@"
                \o "ERR: failed to get env with name 'DB_HOST'"
                \o ":" \o cred.port \o "/" \o cred.name

\* C8: a run makes exactly one connection attempt and at most one query;
\* a failure ends the run at once as failed, nothing is tried again.
C8_NoRetry ==
    /\ connects <= 1
    /\ queries <= 1
    /\ pc = "done" => connects = 1
    /\ (connected = "err" \/ fetched \in {"RowNotFound", "Database"}) =>
          (pc = "done" /\ outcome = "failed")

C8_Witness ==
    /\ pc = "done"
    /\ fetched = "Database"
    /\ outcome = "failed"
    /\ connects = 1
    /\ queries = 1

\* C9: the run succeeds exactly when connect succeeded and the query
\* returned a row; with one or more rows returned the finished run is a
\* success whose last printed line is the first row.
C9_SuccessIffRow ==
    /\ outcome = "success" <=> (pc = "done" /\ connected = "ok" /\ fetched = "row")
    /\ (pc = "done" /\ connected = "ok" /\ Len(rows) >= 1) => outcome = "success"
    /\ outcome = "success" =>
          /\ Len(rows) >= 1
          /\ Len(stdout) = 4
          /\ stdout[4] = RowDebug(rows[1])

C9_Witness ==
    /\ outcome = "success"
    /\ rows = <<"eth", "btc">>
    /\ stdout[4] = "PgRow(eth)"

\* C10: the key, the secret and the URL are printed in this order before
\* the connection attempt; a finished run adds either the row (after a
\* successful connect and query) or an error report, never both.
C10_OutputOrder ==
    /\ connects >= 1 =>
          /\ Len(stdout) >= 3
          /\ stdout[1] = "Key: " \o api_key
          /\ stdout[2] = "Secret: " \o api_secret
          /\ stdout[3] = "Connecting to " \o url
    /\ Len(stdout) <= 4
    /\ Len(stdout) = 4 =>
          (connected = "ok" /\ fetched = "row" /\ stdout[4] = RowDebug(res)
           /\ stderr = << >>)
    /\ pc = "done" =>
          \/ outcome = "success" /\ Len(stdout) = 4 /\ stderr = << >>
          \/ outcome = "failed" /\ Len(stdout) = 3 /\ Len(stderr) = 1

C10_Witness ==
    /\ pc = "done"
    /\ outcome = "failed"
    /\ stdout = <<"Key: filekey", "Secret: ERR:",
                  "Connecting to postgresql://alice:p@ss:w/rd@db.local:5432/market">>
    /\ Len(stderr) = 1

====
